---- MODULE Spec2Model ----
(***************************************************************************)
(* Host-orchestration pipeline of src/opencl_matrix_add.cpp: main() and    *)
(* the functions it calls, one action per statement / platform call, and   *)
(* the compute platform (OpenCL runtime and device) as the environment.    *)
(*                                                                         *)
(* Every platform call may succeed or fail; a call the platform must       *)
(* reject (a NULL handle, a zero-sized buffer) fails deterministically.    *)
(* The command queue is created with properties 0 (line 156), so it is     *)
(* in-order: the device executes queued commands first-in first-out.       *)
(***************************************************************************)
EXTENDS Integers, Sequences, FiniteSets, TLC

\* ------------------------------------------------------------------ bounds
\* Largest vector length given on the command line that the model explores.
MaxN == 1

\* --------------------------------------------------------------- constants
SZ_DEFAULT == 100000000      \* int SZ = 100000000;            (line 8)
RAND_MOD == 100              \* rand() % 100                   (line 72)
PRINT_LIMIT == 15            \* size > 15                      (line 82)
PRINT_EDGE == 5              \* first 5 / last 5               (lines 83, 87)
CL_DEVICE_NOT_FOUND == -1    \* err == CL_DEVICE_NOT_FOUND     (line 226)
SIZEOF_INT == 4              \* sizeof(int)                   (lines 69, 133)

\* A platform error other than CL_DEVICE_NOT_FOUND (CL_OUT_OF_RESOURCES).
OtherError == CL_DEVICE_NOT_FOUND - 4

\* Sample of the values rand() % 100 can take: both ends of [0, RAND_MOD).
Vals == {0, RAND_MOD - 1}

\* All int vectors of length n that init can produce.
Vec(n) == [1..n -> Vals]

HostVectors == {"v1", "v2", "v_out"}
Buffers == {"bufV1", "bufV2", "bufV_out"}
ContextParts == {"context", "program", "queue", "kernel"}
Resources == HostVectors \cup Buffers \cup ContextParts \cup {"event", "program_buffer"}

VARIABLES
    pc,         \* the statement main's thread executes next
    status,     \* "running", "exited" (exit() or return from main), "crashed"
    exitCode,   \* the process exit code once status = "exited"
    SZ,         \* global int SZ
    global,     \* size_t global[1] of main
    v1, v2, v_out,  \* contents of the three host vectors
    handle,     \* each pointer / handle variable: "null", "live" or "released"
    created,    \* resources whose creation succeeded (resource tracker)
    relCount,   \* number of release / free calls made on each resource
    err,        \* global int err (line 20)
    setup_err,  \* local cl_int err of setup_openCL_device_context_queue_kernel
    dev_err,    \* local int err of create_device
    args,       \* kernel arguments bound so far: index -> value
    event,      \* execution status of the dispatched kernel behind cl_event event
    devQ,       \* commands queued on the in-order command queue, oldest first
    dmem,       \* device memory: buffer -> contents (defined buffers only)
    bytes,      \* byte count passed to each allocation and transfer call
    stdout,     \* lines printed by printf, each a sequence of tokens
    trace       \* every platform call and pipeline step made, in order

ctl == <<pc, status, exitCode>>
host == <<SZ, global, v1, v2, v_out, bytes>>
res == <<handle, created, relCount>>
errs == <<err, setup_err, dev_err>>
dev == <<args, event, devQ, dmem>>
io == <<stdout, trace>>
vars == <<pc, status, exitCode, SZ, global, v1, v2, v_out, handle, created,
          relCount, err, setup_err, dev_err, args, event, devQ, dmem, bytes, stdout, trace>>

\* ----------------------------------------------------------------- helpers
\* One entry of the call log: the call, its operand, and the error code the
\* platform reported for it (0 on success); done is FALSE while a blocking
\* call has been issued and has not returned.
Call(op, arg, ret) == [op |-> op, arg |-> arg, ret |-> ret, done |-> TRUE]
Pending(op, arg) == [op |-> op, arg |-> arg, ret |-> 0, done |-> FALSE]

Logged(op, arg, ret) == trace' = Append(trace, Call(op, arg, ret))

\* The newest log entry returns with error code ret.
Returned(ret) ==
    trace' = [trace EXCEPT ![Len(trace)] = [@ EXCEPT !.ret = ret, !.done = TRUE]]

Goto(l) == pc' = l /\ UNCHANGED <<status, exitCode>>

\* exit(code): the process ends at once; nothing is released.
Exit(code) == pc' = "exit" /\ status' = "exited" /\ exitCode' = code

\* Abnormal termination (a signal), the outcome of a write through NULL.
Crash == pc' = "exit" /\ status' = "crashed" /\ UNCHANGED exitCode

At(l) == status = "running" /\ pc = l

Create(r) == /\ handle' = [handle EXCEPT ![r] = "live"]
             /\ created' = created \cup {r}
             /\ UNCHANGED relCount

\* A release call on the handle variable r: the platform (or free) releases
\* a live object; the call is counted whatever the variable holds.
Release(r) == /\ handle' = [handle EXCEPT ![r] = IF @ = "live" THEN "released" ELSE @]
              /\ relCount' = [relCount EXCEPT ![r] = @ + 1]
              /\ UNCHANGED created

\* Outcomes of a platform call that may fail: success or an error code.
Outcomes == {0, OtherError}

\* Faulty variant of print: the tail of a long vector starts one element early.
print_TailShifted(A, size) ==
    IF size > PRINT_LIMIT
    THEN [i \in 1..PRINT_EDGE |-> ToString(A[i])]
         \o <<".....">>
         \o [i \in 1..PRINT_EDGE |-> ToString(A[size - PRINT_EDGE + i - 1])]
    ELSE [i \in 1..size |-> ToString(A[i])]

\* print (lines 77-96): the tokens written before the separator line.
print(A, size) ==
    IF size > PRINT_LIMIT
    THEN [i \in 1..PRINT_EDGE |-> ToString(A[i])]
         \o <<".....">>
         \o [i \in 1..PRINT_EDGE |-> ToString(A[size - PRINT_EDGE + i])]
    ELSE [i \in 1..size |-> ToString(A[i])]

Printed(A, size) == stdout' = Append(stdout, print(A, size))

\* The call op on arg is given n as its size in bytes.
Sized(op, arg, n) == bytes' = (<<op, arg>> :> n) @@ bytes

\* ------------------------------------------------------------- bounds, print
\* Largest vector length and largest seed of the vectors handed to print.
MaxLen == 17
MaxSeed == 5

\* ------------------------------------------------------------------- Init
Init ==
    /\ pc = "main"
    /\ status = "running"
    /\ exitCode = 0
    /\ SZ = SZ_DEFAULT
    /\ global = 0
    /\ v1 = <<>> /\ v2 = <<>> /\ v_out = <<>>
    /\ handle = [r \in Resources |-> "null"]
    /\ created = {}
    /\ relCount = [r \in Resources |-> 0]
    /\ err = 0 /\ setup_err = 0 /\ dev_err = 0
    /\ args = <<>>
    /\ event = "none"
    /\ devQ = <<>>
    /\ dmem = <<>>
    /\ bytes = <<>>
    /\ stdout = <<>>
    /\ trace = <<>>

\* ------------------------------------------------------------------- main
\* Lines 32-34: the runs explored are those given a length argument in
\* 0..MaxN (atoi of argv[1]).
main_args ==
    /\ At("main")
    /\ \E n \in 0..MaxN : SZ' = n
    /\ Goto("init_v1")
    /\ UNCHANGED <<global, v1, v2, v_out, bytes, res, errs, dev, io>>

\* init (lines 68-74): malloc, then one rand() % 100 per element.  malloc(0)
\* may return NULL or a pointer; a NULL from malloc with size > 0 is written
\* through by the loop, which ends the process abnormally.
init(A, size, next) ==
  /\ Sized("malloc", A, SIZEOF_INT * size)
  /\
    \/ /\ \E vec \in Vec(size) :
             /\ v1' = IF A = "v1" THEN vec ELSE v1
             /\ v2' = IF A = "v2" THEN vec ELSE v2
             /\ v_out' = IF A = "v_out" THEN vec ELSE v_out
       /\ Create(A)
       /\ Goto(next)
       /\ Logged("init", A, 0)
    \/ /\ size = 0
       /\ Goto(next)
       /\ Logged("init", A, 0)
       /\ UNCHANGED <<v1, v2, v_out, res>>
    \/ /\ size > 0
       /\ Crash
       /\ Logged("init", A, OtherError)
       /\ UNCHANGED <<v1, v2, v_out, res>>

init_v1 == At("init_v1") /\ init("v1", SZ, "init_v2")
           /\ UNCHANGED <<SZ, global, errs, dev, stdout>>
init_v2 == At("init_v2") /\ init("v2", SZ, "init_v_out")
           /\ UNCHANGED <<SZ, global, errs, dev, stdout>>
init_v_out == At("init_v_out") /\ init("v_out", SZ, "set_global")
              /\ UNCHANGED <<SZ, global, errs, dev, stdout>>

\* Line 40.
set_global ==
    /\ At("set_global")
    /\ global' = SZ
    /\ Goto("print_v1")
    /\ UNCHANGED <<SZ, v1, v2, v_out, bytes, res, errs, dev, io>>

\* Lines 42-43.
print_v1 ==
    /\ At("print_v1")
    /\ Printed(v1, SZ)
    /\ Logged("print", "v1", 0)
    /\ Goto("print_v2")
    /\ UNCHANGED <<host, res, errs, dev>>

print_v2 ==
    /\ At("print_v2")
    /\ Printed(v2, SZ)
    /\ Logged("print", "v2", 0)
    /\ Goto("clGetPlatformIDs")
    /\ UNCHANGED <<host, res, errs, dev>>

\* ---------------------------------------------------------- create_device
\* Lines 219-223.
clGetPlatformIDs ==
    /\ At("clGetPlatformIDs")
    /\ \E e \in Outcomes :
          /\ dev_err' = e
          /\ Logged("clGetPlatformIDs", "", e)
          /\ IF e < 0 THEN Exit(1) ELSE Goto("clGetDeviceIDs_GPU")
    /\ UNCHANGED <<host, res, err, setup_err, dev, stdout>>

\* Faulty variant of FallsBack: the fallback is taken on any error.
FallsBack_AnyError(e) == e < 0

\* Whether create_device asks for a CPU device after the GPU request
\* returned e (line 226).
FallsBack(e) == e = CL_DEVICE_NOT_FOUND

\* Lines 225-227, and lines 230-235 when the fallback is not taken.
clGetDeviceIDs_GPU ==
    /\ At("clGetDeviceIDs_GPU")
    /\ \E e \in Outcomes \cup {CL_DEVICE_NOT_FOUND} :
          /\ dev_err' = e
          /\ Logged("clGetDeviceIDs", "CL_DEVICE_TYPE_GPU", e)
          /\ IF FallsBack(e)
             THEN /\ stdout' = Append(stdout, <<"GPU not found">>)
                  /\ Goto("clGetDeviceIDs_CPU")
             ELSE /\ UNCHANGED stdout
                  /\ IF e < 0 THEN Exit(1) ELSE Goto("clCreateContext")
    /\ UNCHANGED <<host, res, err, setup_err, dev>>

\* Line 228, then lines 230-235.
clGetDeviceIDs_CPU ==
    /\ At("clGetDeviceIDs_CPU")
    /\ \E e \in Outcomes \cup {CL_DEVICE_NOT_FOUND} :
          /\ dev_err' = e
          /\ Logged("clGetDeviceIDs", "CL_DEVICE_TYPE_CPU", e)
          /\ IF e < 0 THEN Exit(1) ELSE Goto("clCreateContext")
    /\ UNCHANGED <<host, res, err, setup_err, dev, stdout>>

\* ------------------------------- setup_openCL_device_context_queue_kernel
\* Faulty variant of clCreateContext: the check of lines 148-151 is missing.
clCreateContext_Unchecked ==
    /\ At("clCreateContext")
    /\ \E e \in Outcomes :
          /\ setup_err' = e
          /\ Logged("clCreateContext", "", e)
          /\ IF e < 0 THEN UNCHANGED res ELSE Create("context")
    /\ Goto("fopen")
    /\ UNCHANGED <<host, err, dev_err, dev, stdout>>

\* Lines 147-151.
clCreateContext ==
    /\ At("clCreateContext")
    /\ \E e \in Outcomes :
          /\ setup_err' = e
          /\ Logged("clCreateContext", "", e)
          /\ IF e < 0
             THEN Exit(1) /\ UNCHANGED res
             ELSE Goto("fopen") /\ Create("context")
    /\ UNCHANGED <<host, err, dev_err, dev, stdout>>

\* ---------------------------------------------------------- build_program
\* Faulty variant of fopen: the NULL check of lines 178-181 is missing.
fopen_Unchecked ==
    /\ At("fopen")
    /\ \E e \in Outcomes : Logged("fopen", "./vector_ops_ocl.cl", e)
    /\ Goto("read_source")
    /\ UNCHANGED <<host, res, errs, dev, stdout>>

\* Lines 177-181.
fopen ==
    /\ At("fopen")
    /\ \E e \in Outcomes :
          /\ Logged("fopen", "./vector_ops_ocl.cl", e)
          /\ IF e < 0 THEN Exit(1) ELSE Goto("read_source")
    /\ UNCHANGED <<host, res, errs, dev, stdout>>

\* Lines 182-188: the source buffer is allocated and filled; a NULL from
\* malloc is written through at line 186.
read_source ==
    /\ At("read_source")
    /\ \/ /\ Create("program_buffer")
          /\ Logged("malloc", "program_buffer", 0)
          /\ Goto("clCreateProgramWithSource")
       \/ /\ Logged("malloc", "program_buffer", OtherError)
          /\ Crash
          /\ UNCHANGED res
    /\ UNCHANGED <<host, errs, dev, stdout>>

\* Lines 191-195: the result goes to the global err; on failure the process
\* exits with the source buffer still allocated.
clCreateProgramWithSource ==
    /\ At("clCreateProgramWithSource")
    /\ \E e \in Outcomes :
          /\ err' = e
          /\ Logged("clCreateProgramWithSource", "", e)
          /\ IF e < 0
             THEN Exit(1) /\ UNCHANGED created
             ELSE Goto("free_program_buffer") /\ created' = created \cup {"program"}
    /\ UNCHANGED <<host, handle, relCount, setup_err, dev_err, dev, stdout>>

\* Line 196.
free_program_buffer ==
    /\ At("free_program_buffer")
    /\ Release("program_buffer")
    /\ Logged("free", "program_buffer", 0)
    /\ Goto("clBuildProgram")
    /\ UNCHANGED <<host, errs, dev, stdout>>

\* Lines 199-210, and the assignment of line 153: on failure the build log is
\* fetched, printed and freed, and the process exits; on success the program
\* is returned into the global program.
clBuildProgram ==
    /\ At("clBuildProgram")
    /\ \E e \in Outcomes :
          /\ err' = e
          /\ Logged("clBuildProgram", "", e)
          /\ IF e < 0
             THEN /\ stdout' = Append(stdout, <<"program_log">>)
                  /\ Exit(1)
                  /\ UNCHANGED handle
             ELSE /\ handle' = [handle EXCEPT !["program"] = "live"]
                  /\ Goto("clCreateCommandQueue")
                  /\ UNCHANGED stdout
    /\ UNCHANGED <<host, created, relCount, setup_err, dev_err, dev>>

\* Faulty variant of clCreateCommandQueue: the check of lines 157-160 is missing.
clCreateCommandQueue_Unchecked ==
    /\ At("clCreateCommandQueue")
    /\ \E e \in Outcomes :
          /\ setup_err' = e
          /\ Logged("clCreateCommandQueueWithProperties", "", e)
          /\ IF e < 0 THEN UNCHANGED res ELSE Create("queue")
    /\ Goto("clCreateKernel")
    /\ UNCHANGED <<host, err, dev_err, dev, stdout>>

\* Lines 156-160.
clCreateCommandQueue ==
    /\ At("clCreateCommandQueue")
    /\ \E e \in Outcomes :
          /\ setup_err' = e
          /\ Logged("clCreateCommandQueueWithProperties", "", e)
          /\ IF e < 0
             THEN Exit(1) /\ UNCHANGED res
             ELSE Goto("clCreateKernel") /\ Create("queue")
    /\ UNCHANGED <<host, err, dev_err, dev, stdout>>

\* Lines 162-167.
clCreateKernel ==
    /\ At("clCreateKernel")
    /\ \E e \in Outcomes :
          /\ setup_err' = e
          /\ Logged("clCreateKernel", "vector_add_ocl", e)
          /\ IF e < 0
             THEN /\ Exit(1)
                  /\ stdout' = Append(stdout, <<"error =", ToString(e)>>)
                  /\ UNCHANGED res
             ELSE /\ Goto("clCreateBuffer_bufV1")
                  /\ Create("kernel")
                  /\ UNCHANGED stdout
    /\ UNCHANGED <<host, err, dev_err, dev>>

\* ---------------------------------------------------- setup_kernel_memory
\* The buffer the kernel entry point computes, per the kernel source
\* resource ./vector_ops_ocl.cl: out[i] = a[i] + b[i] for each work item i.
vector_add_ocl(a, b, n) == [i \in 1..n |-> a[i] + b[i]]

\* Faulty variant of BufferBytes: the element count is passed as the size.
BufferBytes_Elements == SZ

\* SZ * sizeof(int): the size of each buffer and of each transfer (lines
\* 133-135, 138-139 and 57).
BufferBytes == SZ * SIZEOF_INT

\* clCreateBuffer (lines 133-135): no errcode_ret is passed, so a failure
\* only shows as a NULL handle.  A zero-sized buffer is always rejected.
clCreateBuffer(b, next) ==
    /\ \E e \in Outcomes :
          /\ SZ = 0 => e < 0
          /\ Logged("clCreateBuffer", b, e)
          /\ IF e < 0 THEN UNCHANGED res ELSE Create(b)
    /\ Sized("clCreateBuffer", b, BufferBytes)
    /\ Goto(next)
    /\ UNCHANGED <<SZ, global, v1, v2, v_out, errs, dev, stdout>>

clCreateBuffer_bufV1 ==
    At("clCreateBuffer_bufV1") /\ clCreateBuffer("bufV1", "clCreateBuffer_bufV2")
clCreateBuffer_bufV2 ==
    At("clCreateBuffer_bufV2") /\ clCreateBuffer("bufV2", "clCreateBuffer_bufV_out")
clCreateBuffer_bufV_out ==
    At("clCreateBuffer_bufV_out") /\ clCreateBuffer("bufV_out", "write_bufV1")

\* Whether the platform must reject a transfer between buffer b and host
\* vector v: a NULL buffer, a NULL host pointer or a size of zero bytes.
Rejected(b, v) == handle[b] # "live" \/ handle[v] # "live" \/ SZ = 0

\* A transfer command is blocking (CL_TRUE, lines 57, 138, 139): once
\* queued, the call returns only when the device has executed it.
Blocking == TRUE

\* clEnqueueWriteBuffer / clEnqueueReadBuffer: the call is issued; it either
\* fails at once (the result is dropped) or queues the command.
Enqueue(op, b, v, data, blocked, next) ==
    /\ \E e \in Outcomes :
          /\ Rejected(b, v) => e < 0
          /\ IF e < 0
             THEN /\ Logged(op, b, e)
                  /\ Goto(next)
                  /\ UNCHANGED devQ
             ELSE /\ devQ' = Append(devQ, [op |-> op, buf |-> b, data |-> data])
                  /\ IF Blocking
                     THEN trace' = Append(trace, Pending(op, b)) /\ Goto(blocked)
                     ELSE Logged(op, b, 0) /\ Goto(next)
    /\ Sized(op, b, BufferBytes)
    /\ UNCHANGED <<SZ, global, v1, v2, v_out, res, errs, args, event, dmem, stdout>>

\* The blocked call returns once the device has executed its command (the
\* queue is in-order and the command is the newest, so once it is empty).
Return(next) ==
    /\ devQ = <<>>
    /\ Returned(0)
    /\ Goto(next)
    /\ UNCHANGED <<host, res, errs, dev, stdout>>

\* Lines 138-139.
write_bufV1 ==
    /\ At("write_bufV1")
    /\ Enqueue("clEnqueueWriteBuffer", "bufV1", "v1", v1, "blocked_write_bufV1", "write_bufV2")
blocked_write_bufV1 ==
    At("blocked_write_bufV1") /\ Return("write_bufV2")
write_bufV2 ==
    /\ At("write_bufV2")
    /\ Enqueue("clEnqueueWriteBuffer", "bufV2", "v2", v2, "blocked_write_bufV2", "clSetKernelArg_0")
blocked_write_bufV2 ==
    At("blocked_write_bufV2") /\ Return("clSetKernelArg_0")

\* ------------------------------------------------------- copy_kernel_args
\* The value passed for a buffer argument: the handle, NULL if it is NULL.
Mem(b) == IF handle[b] = "live" THEN b ELSE "null"

\* Faulty variant of clSetKernelArg: the result is assigned to the global err.
clSetKernelArg_Assigning(i, val, mem, next) ==
    /\ \E e \in Outcomes :
          /\ Logged("clSetKernelArg", ToString(i), e)
          /\ err' = e
          /\ args' = IF e < 0 THEN args
                     ELSE (i :> [val |-> val, mem |-> mem]) @@ args
    /\ Goto(next)
    /\ UNCHANGED <<host, res, setup_err, dev_err, event, devQ, dmem, stdout>>

\* clSetKernelArg (lines 118-121): the result of the call is dropped.
clSetKernelArg(i, val, mem, next) ==
    /\ \E e \in Outcomes :
          /\ Logged("clSetKernelArg", ToString(i), e)
          /\ args' = IF e < 0 THEN args
                     ELSE (i :> [val |-> val, mem |-> mem]) @@ args
    /\ Goto(next)
    /\ UNCHANGED <<host, res, errs, event, devQ, dmem, stdout>>

clSetKernelArg_0 ==
    At("clSetKernelArg_0") /\ clSetKernelArg(0, SZ, "", "clSetKernelArg_1")
clSetKernelArg_1 ==
    At("clSetKernelArg_1") /\ clSetKernelArg(1, 0, Mem("bufV1"), "clSetKernelArg_2")
clSetKernelArg_2 ==
    At("clSetKernelArg_2") /\ clSetKernelArg(2, 0, Mem("bufV2"), "clSetKernelArg_3")
clSetKernelArg_3 ==
    At("clSetKernelArg_3") /\ clSetKernelArg(3, 0, Mem("bufV_out"), "check_err")

\* The value copy_kernel_args tests at line 123: the global err.
BindingError == err

\* Lines 123-127.
check_err ==
    /\ At("check_err")
    /\ IF BindingError < 0
       THEN /\ stdout' = Append(stdout, <<"error =", ToString(err)>>)
            /\ Exit(1)
       ELSE /\ Goto("start")
            /\ UNCHANGED stdout
    /\ UNCHANGED <<host, res, errs, dev, trace>>

\* -------------------------------------------------- main, lines 50 to 65
\* Line 50.
start ==
    /\ At("start")
    /\ Logged("now", "start", 0)
    /\ Goto("clEnqueueNDRangeKernel")
    /\ UNCHANGED <<host, res, errs, dev, stdout>>

\* Line 53: the result is dropped.  A kernel with an unset argument is
\* rejected; otherwise the launch is queued and event names it.
clEnqueueNDRangeKernel ==
    /\ At("clEnqueueNDRangeKernel")
    /\ \E e \in Outcomes :
          /\ DOMAIN args # 0..3 => e < 0
          /\ Logged("clEnqueueNDRangeKernel", ToString(global), e)
          /\ IF e < 0
             THEN UNCHANGED <<res, event, devQ>>
             ELSE /\ Create("event")
                  /\ event' = "queued"
                  /\ devQ' = Append(devQ, [op |-> "kernel", buf |-> "", data |-> <<>>])
    /\ Goto("clWaitForEvents")
    /\ UNCHANGED <<host, errs, args, dmem, stdout>>

\* Line 54: the result is dropped.  A NULL event is rejected; otherwise the
\* call fails at once or blocks until the kernel has finished.
clWaitForEvents ==
    /\ At("clWaitForEvents")
    /\ \/ /\ Logged("clWaitForEvents", "event", OtherError)
          /\ Goto("read_bufV_out")
       \/ /\ handle["event"] = "live"
          /\ trace' = Append(trace, Pending("clWaitForEvents", "event"))
          /\ Goto("blocked_wait")
    /\ UNCHANGED <<host, res, errs, dev, stdout>>

blocked_wait ==
    /\ At("blocked_wait")
    /\ event \in {"complete", "error"}
    /\ Returned(IF event = "complete" THEN 0 ELSE OtherError)
    /\ Goto("read_bufV_out")
    /\ UNCHANGED <<host, res, errs, dev, stdout>>

\* Line 57: the result is dropped.
read_bufV_out ==
    /\ At("read_bufV_out")
    /\ Enqueue("clEnqueueReadBuffer", "bufV_out", "v_out", <<>>, "blocked_read_bufV_out", "print_v_out")
blocked_read_bufV_out ==
    At("blocked_read_bufV_out") /\ Return("print_v_out")

\* Line 58.
print_v_out ==
    /\ At("print_v_out")
    /\ Printed(v_out, SZ)
    /\ Logged("print", "v_out", 0)
    /\ Goto("stop")
    /\ UNCHANGED <<host, res, errs, dev>>

\* Lines 60-63.
stop ==
    /\ At("stop")
    /\ Logged("now", "stop", 0)
    /\ stdout' = Append(stdout, <<"Kernel Execution Time:", "ms">>)
    /\ Goto("free_memory")
    /\ UNCHANGED <<host, res, errs, dev>>

\* Faulty variant of FreeOrder: the context is released before what it scopes.
FreeOrder_ContextFirst ==
    <<"context", "bufV1", "bufV2", "bufV_out", "kernel", "queue", "program",
      "v1", "v2", "v_out">>

\* free_memory (lines 99-114): the release calls, in the order made.
FreeOrder ==
    <<"bufV1", "bufV2", "bufV_out", "kernel", "queue", "program", "context",
      "v1", "v2", "v_out">>

\* The release calls in the call log.
Releases == SelectSeq(trace, LAMBDA c : c.op = "release")

\* free_memory (lines 99-114) and the return of main (line 65): the release
\* calls are made one after the other in FreeOrder; a call on a NULL handle
\* is rejected by the platform (free(NULL) does nothing), a live object is
\* released.  Returning from main ends the process with exit code 0.
free_memory ==
    /\ At("free_memory")
    /\ handle' = [r \in Resources |->
                    IF handle[r] = "live" /\ \E k \in DOMAIN FreeOrder : FreeOrder[k] = r
                    THEN "released" ELSE handle[r]]
    /\ relCount' = [r \in Resources |->
                      relCount[r] + Cardinality({k \in DOMAIN FreeOrder : FreeOrder[k] = r})]
    /\ trace' = trace \o
          [k \in DOMAIN FreeOrder |->
              Call("release", FreeOrder[k],
                   IF handle[FreeOrder[k]] = "live" \/ FreeOrder[k] \in HostVectors
                   THEN 0 ELSE OtherError)]
    /\ Exit(0)
    /\ UNCHANGED <<host, created, errs, dev, stdout>>

\* ------------------------------------------------------------- the device
\* Faulty variant of NextCommand: an out-of-order queue that runs the newest command.
NewestCommand == Len(devQ)

\* The command the device executes next: the oldest one (in-order queue).
NextCommand == 1

Dequeued(k) == devQ' = SubSeq(devQ, 1, k - 1) \o SubSeq(devQ, k + 1, Len(devQ))

\* The device executes a queued transfer.  A read of a buffer that was never
\* written yields indeterminate values.
DeviceTransfer ==
    /\ status = "running"
    /\ NextCommand \in DOMAIN devQ
    /\ LET c == devQ[NextCommand] IN
         \/ /\ c.op = "clEnqueueWriteBuffer"
            /\ dmem' = (c.buf :> c.data) @@ dmem
            /\ UNCHANGED v_out
         \/ /\ c.op = "clEnqueueReadBuffer"
            /\ \E g \in Vec(SZ) :
                  v_out' = IF c.buf \in DOMAIN dmem THEN dmem[c.buf] ELSE g
            /\ UNCHANGED dmem
    /\ Dequeued(NextCommand)
    /\ UNCHANGED <<ctl, SZ, global, v1, v2, bytes, res, errs, args, event, io>>

\* The device executes the queued kernel on the bound arguments.  With all
\* three buffers bound and both inputs uploaded the output buffer receives
\* the sums; with an input never uploaded it stays indeterminate; a NULL
\* buffer argument is dereferenced by each work item, which may leave memory
\* untouched, abort the kernel, or end the process when the device runs
\* in-process.  The kernel may also fail on the device for other reasons.
DeviceKernel ==
    /\ status = "running"
    /\ NextCommand \in DOMAIN devQ
    /\ devQ[NextCommand].op = "kernel"
    /\ Dequeued(NextCommand)
    /\ LET a == args[1].mem
           b == args[2].mem
           o == args[3].mem
       IN  \/ /\ "null" \notin {a, b, o}
              /\ {a, b} \subseteq DOMAIN dmem
              /\ dmem' = (o :> vector_add_ocl(dmem[a], dmem[b], global)) @@ dmem
              /\ event' = "complete"
              /\ UNCHANGED ctl
           \/ /\ \/ "null" \in {a, b, o}
                 \/ ~ ({a, b} \subseteq DOMAIN dmem)
              /\ event' = "complete"
              /\ UNCHANGED <<dmem, ctl>>
           \/ /\ event' = "error"
              /\ UNCHANGED <<dmem, ctl>>
           \/ /\ "null" \in {a, b, o}
              /\ global > 0
              /\ Crash
              /\ UNCHANGED <<dmem, event>>
    /\ UNCHANGED <<host, res, errs, args, io>>

Next ==
    \/ main_args
    \/ init_v1 \/ init_v2 \/ init_v_out
    \/ set_global
    \/ print_v1 \/ print_v2
    \/ clGetPlatformIDs \/ clGetDeviceIDs_GPU \/ clGetDeviceIDs_CPU
    \/ clCreateContext
    \/ fopen \/ read_source \/ clCreateProgramWithSource \/ free_program_buffer
    \/ clBuildProgram
    \/ clCreateCommandQueue \/ clCreateKernel
    \/ clCreateBuffer_bufV1 \/ clCreateBuffer_bufV2 \/ clCreateBuffer_bufV_out
    \/ write_bufV1 \/ blocked_write_bufV1 \/ write_bufV2 \/ blocked_write_bufV2
    \/ clSetKernelArg_0 \/ clSetKernelArg_1 \/ clSetKernelArg_2 \/ clSetKernelArg_3
    \/ check_err
    \/ start \/ clEnqueueNDRangeKernel \/ clWaitForEvents \/ blocked_wait
    \/ read_bufV_out \/ blocked_read_bufV_out \/ print_v_out \/ stop
    \/ free_memory
    \/ DeviceTransfer \/ DeviceKernel

Spec == Init /\ [][Next]_vars

\* ============================================================ properties
Idx == DOMAIN trace

Failed(c) == c.done /\ c.ret < 0

Is(c, op, arg) == c.op = op /\ c.arg = arg

\* The steps of the setup stage, and the steps of the pipeline after it.
SetupOps ==
    {"clGetPlatformIDs", "clGetDeviceIDs", "clCreateContext", "fopen",
     "clCreateProgramWithSource", "clBuildProgram",
     "clCreateCommandQueueWithProperties", "clCreateKernel"}

PipelineOps ==
    {"clCreateBuffer", "clEnqueueWriteBuffer", "clSetKernelArg",
     "clEnqueueNDRangeKernel", "clWaitForEvents", "clEnqueueReadBuffer", "release"}

\* A setup failure: a failed setup step, other than the GPU request reporting
\* device-not-found (which the CPU fallback handles).
SetupFailure(c) ==
    /\ c.op \in SetupOps
    /\ Failed(c)
    /\ ~ (Is(c, "clGetDeviceIDs", "CL_DEVICE_TYPE_GPU") /\ c.ret = CL_DEVICE_NOT_FOUND)

Finished(code) == status = "exited" /\ exitCode = code

\* C1: for N >= 1, when main has completed with exit code 0 the output
\* vector holds v_out[i] = A[i] + B[i] at every index.  (Stated as the claim
\* states it; the code violates it.)
C1_OutputIsSum ==
    (Finished(0) /\ SZ >= 1) =>
        /\ Len(v_out) = SZ
        /\ \A i \in 1..SZ : v_out[i] = v1[i] + v2[i]

\* C2: each setup failure ends the process with exit code 1 at the step where
\* it occurs: the failed step is the last step made, and no buffer allocation,
\* upload, argument binding, dispatch, download or teardown step is ever made.
C2_SetupFailureIsFatal ==
    \A i \in Idx :
        SetupFailure(trace[i]) =>
            /\ i = Len(trace)
            /\ Finished(1)
            /\ \A j \in Idx : trace[j].op \notin PipelineOps

\* C2 witness: the last setup step (kernel entry point not found) has failed
\* and the process has exited with code 1.
C2_Witness ==
    /\ Finished(1)
    /\ trace # <<>>
    /\ trace[Len(trace)].op = "clCreateKernel"
    /\ Failed(trace[Len(trace)])

\* C3: if any of the four kernel-argument bindings fails, the process exits
\* with code 1 from copy_kernel_args and the kernel is never dispatched.
\* (Stated as the claim states it; the code violates it.)
C3_BindingFailureIsFatal ==
    (\E i \in Idx : trace[i].op = "clSetKernelArg" /\ Failed(trace[i])) =>
        /\ \A j \in Idx : trace[j].op # "clEnqueueNDRangeKernel"
        /\ pc \notin {"clSetKernelArg_1", "clSetKernelArg_2", "clSetKernelArg_3",
                      "check_err"} => Finished(1)

\* C4: a failed buffer allocation or a failed upload is fatal: the process
\* ends at that point, so no argument binding and no dispatch follows it.
\* (Stated as the claim states it; the code violates it.)
C4_BufferFailureIsFatal ==
    \A i \in Idx :
        (trace[i].op \in {"clCreateBuffer", "clEnqueueWriteBuffer"} /\ Failed(trace[i])) =>
            /\ i = Len(trace)
            /\ status # "running"

\* C5: if the dispatch, the completion wait or the download fails, the
\* process ends at once: the output vector is never printed and the run
\* never finishes with exit code 0.
\* (Stated as the claim states it; the code violates it.)
C5_NoPartialResult ==
    (\E i \in Idx :
        /\ trace[i].op \in {"clEnqueueNDRangeKernel", "clWaitForEvents", "clEnqueueReadBuffer"}
        /\ Failed(trace[i])) =>
        /\ \A j \in Idx : ~ Is(trace[j], "print", "v_out")
        /\ ~ Finished(0)

\* ---------------------------------------------------------------- C6
GpuRequest(c) == Is(c, "clGetDeviceIDs", "CL_DEVICE_TYPE_GPU")
CpuRequest(c) == Is(c, "clGetDeviceIDs", "CL_DEVICE_TYPE_CPU")

\* C6: the CPU request is made at most once per run; it is made exactly when
\* the GPU request before it reported device-not-found, directly after it,
\* and never after a GPU request that succeeded or failed otherwise; the
\* process does not end after a GPU not-found before the CPU request is made.
C6_FallbackOnceOnlyOnNotFound ==
    /\ Cardinality({i \in Idx : CpuRequest(trace[i])}) <= 1
    /\ \A i \in Idx :
          CpuRequest(trace[i]) =>
              /\ i > 1
              /\ GpuRequest(trace[i - 1])
              /\ trace[i - 1].ret = CL_DEVICE_NOT_FOUND
    /\ \A i \in Idx :
          GpuRequest(trace[i]) =>
              IF trace[i].ret = CL_DEVICE_NOT_FOUND
              THEN /\ i < Len(trace) => CpuRequest(trace[i + 1])
                   /\ i = Len(trace) => At("clGetDeviceIDs_CPU")
              ELSE \A j \in Idx : ~ CpuRequest(trace[j])

\* C6 witness: the GPU request reported not-found, the CPU request was then
\* made and failed, and the process has exited with code 1.
C6_Witness ==
    /\ Finished(1)
    /\ Len(trace) > 1
    /\ CpuRequest(trace[Len(trace)])
    /\ Failed(trace[Len(trace)])
    /\ trace[Len(trace) - 1].ret = CL_DEVICE_NOT_FOUND

\* ---------------------------------------------------------------- C7
Tracked == HostVectors \cup ContextParts \cup Buffers

\* C7: by the time the process ends (exit() or return from main), every
\* resource that was created has been released exactly once and no release
\* was attempted on a resource whose creation failed.
\* (Stated as the claim states it; the code violates it.)
C7_ReleasedExactlyOnce ==
    status = "exited" =>
        \A r \in Tracked : relCount[r] = IF r \in created THEN 1 ELSE 0

\* ---------------------------------------------------------------- C8
\* The place in the call log of the successful release of r (0 if none).
ReleasedAt(r) ==
    IF \E i \in Idx : Is(trace[i], "release", r) /\ trace[i].ret = 0
    THEN CHOOSE i \in Idx : Is(trace[i], "release", r) /\ trace[i].ret = 0
    ELSE 0

\* C8: free_memory makes its release calls in the order bufV1, bufV2,
\* bufV_out, kernel, queue, program, context, v1, v2, v_out, all of them
\* before main returns; and the context is never released while a buffer,
\* the kernel, the queue or the program created under it is still live:
\* each of them that was created was released earlier.
C8_TeardownOrder ==
    LET order == <<"bufV1", "bufV2", "bufV_out", "kernel", "queue", "program",
                   "context", "v1", "v2", "v_out">>
    IN  /\ Len(Releases) <= Len(order)
        /\ \A k \in DOMAIN Releases : Releases[k].arg = order[k]
        /\ Finished(0) => Len(Releases) = Len(order)
        /\ handle["context"] = "released" =>
              \A r \in Buffers \cup {"kernel", "queue", "program"} :
                  /\ handle[r] # "live"
                  /\ r \in created =>
                        /\ ReleasedAt(r) > 0
                        /\ ReleasedAt(r) < ReleasedAt("context")

\* C8 witness: a run in which every resource was created has returned from
\* main with all ten releases made.
C8_Witness ==
    /\ Finished(0)
    /\ Tracked \subseteq created
    /\ \A r \in Tracked : handle[r] = "released"

\* ---------------------------------------------------------------- C9
BufferOrDispatchOps ==
    {"clCreateBuffer", "clEnqueueWriteBuffer", "clSetKernelArg",
     "clEnqueueNDRangeKernel", "clEnqueueReadBuffer"}

BufferOrDispatchPcs ==
    {"clCreateBuffer_bufV1", "clCreateBuffer_bufV2", "clCreateBuffer_bufV_out",
     "write_bufV1", "blocked_write_bufV1", "write_bufV2", "blocked_write_bufV2",
     "clSetKernelArg_0", "clSetKernelArg_1", "clSetKernelArg_2", "clSetKernelArg_3",
     "check_err", "start", "clEnqueueNDRangeKernel", "clWaitForEvents",
     "blocked_wait", "read_bufV_out", "blocked_read_bufV_out"}

\* C9: whenever a buffer allocation, upload, argument binding, dispatch or
\* download is about to be or has been performed, context, program, command
\* queue and kernel were all created successfully, and they are live while
\* those operations are performed.
C9_ContextFullyConstructed ==
    /\ pc \in BufferOrDispatchPcs => \A r \in ContextParts : handle[r] = "live"
    /\ (\E i \in Idx : trace[i].op \in BufferOrDispatchOps) => ContextParts \subseteq created

\* C9 witness: the kernel is about to be dispatched on a fully constructed
\* context, after buffers were allocated and arguments bound.
C9_Witness ==
    /\ At("clEnqueueNDRangeKernel")
    /\ DOMAIN args = 0..3
    /\ \A r \in ContextParts : handle[r] = "live"

\* --------------------------------------------------------------- C10
DeviceOps ==
    {"clEnqueueWriteBuffer", "clSetKernelArg", "clEnqueueNDRangeKernel",
     "clWaitForEvents", "clEnqueueReadBuffer"}

\* The device operations issued so far, in the order issued.
Issued == SelectSeq(trace, LAMBDA c : c.op \in DeviceOps)

\* Upload of A, upload of B, the four bindings, dispatch, wait, download.
IssueOrder ==
    <<"clEnqueueWriteBuffer", "clEnqueueWriteBuffer",
      "clSetKernelArg", "clSetKernelArg", "clSetKernelArg", "clSetKernelArg",
      "clEnqueueNDRangeKernel", "clWaitForEvents", "clEnqueueReadBuffer">>

\* The operations are issued in the stated order, input A before input B,
\* and a run that returns from main has issued them all.
InIssueOrder ==
    /\ Len(Issued) <= Len(IssueOrder)
    /\ \A k \in DOMAIN Issued : Issued[k].op = IssueOrder[k]
    /\ Len(Issued) >= 1 => Issued[1].arg = "bufV1"
    /\ Len(Issued) >= 2 => Issued[2].arg = "bufV2"
    /\ Finished(0) => Len(Issued) = Len(IssueOrder)

\* Each operation has completed before the next is issued: only the newest
\* call can be outstanding, and a transfer is on the device queue only while
\* the host is blocked in the call that queued it.
CompletesBeforeNext ==
    /\ \A i \in Idx : i < Len(trace) => trace[i].done
    /\ \A k \in DOMAIN devQ :
          devQ[k].op # "kernel" =>
              /\ k = Len(devQ)
              /\ ~ trace[Len(trace)].done
              /\ Is(trace[Len(trace)], devQ[k].op, devQ[k].buf)

\* The kernel is never on the device queue together with an upload: when it
\* is dispatched both upload calls have returned.
DispatchAfterUploads ==
    \A k \in DOMAIN devQ :
        devQ[k].op = "kernel" =>
            /\ \A j \in DOMAIN devQ : devQ[j].op # "clEnqueueWriteBuffer"
            /\ Cardinality({i \in Idx : trace[i].op = "clEnqueueWriteBuffer" /\ trace[i].done}) = 2

\* The device takes up the download in this step.
DownloadStarts ==
    /\ \E k \in DOMAIN devQ : devQ[k].op = "clEnqueueReadBuffer"
    /\ \A k \in DOMAIN devQ' : devQ'[k].op # "clEnqueueReadBuffer"

\* C10: the device operations are issued in the order upload A, upload B,
\* argument binding, dispatch, wait, download, each completing before the
\* next is issued; the kernel is not dispatched before both uploads have
\* returned, and the device never starts the download while the dispatched
\* kernel has not finished.
C10_DeviceOperationOrder ==
    /\ [](InIssueOrder /\ CompletesBeforeNext /\ DispatchAfterUploads)
    /\ [][DownloadStarts => event # "queued"]_vars

\* C10 witness: all nine operations were issued and succeeded, the kernel
\* finished and the download has returned the sums.
C10_Witness ==
    /\ At("print_v_out")
    /\ Len(Issued) = Len(IssueOrder)
    /\ \A k \in DOMAIN Issued : Issued[k].done /\ Issued[k].ret = 0
    /\ event = "complete"
    /\ SZ >= 1
    /\ v_out = vector_add_ocl(v1, v2, SZ)

\* --------------------------------------------------------------- C11
SourceNotFound == \E i \in Idx : trace[i].op = "fopen" /\ Failed(trace[i])

\* C11: when the kernel source file cannot be opened the process exits with
\* code 1, and no device buffer is allocated at any point of that run: no
\* clCreateBuffer call is made and no buffer handle is ever set.
C11_SourceNotFoundAllocatesNothing ==
    SourceNotFound =>
        /\ Finished(1)
        /\ \A i \in Idx : trace[i].op # "clCreateBuffer"
        /\ \A b \in Buffers : b \notin created /\ handle[b] = "null"

\* C11 witness: fopen has failed and the run has ended with exit code 1
\* after the context was created.
C11_Witness ==
    /\ SourceNotFound
    /\ Finished(1)
    /\ "context" \in created

\* --------------------------------------------------------------- C12
\* C12: one value N = SZ is used throughout a run: every allocation and
\* every transfer is given N x sizeof(int) bytes, each host vector that was
\* allocated and each device buffer that was written has N elements, kernel
\* argument 0 is N, and the global work-item count of the dispatch is N.
C12_SingleProblemSize ==
    pc # "main" =>
        /\ \A k \in DOMAIN bytes : bytes[k] = SZ * SIZEOF_INT
        /\ "v1" \in created => Len(v1) = SZ
        /\ "v2" \in created => Len(v2) = SZ
        /\ "v_out" \in created => Len(v_out) = SZ
        /\ \A b \in DOMAIN dmem : Len(dmem[b]) = SZ
        /\ 0 \in DOMAIN args => args[0].val = SZ
        /\ pc \notin {"init_v1", "init_v2", "init_v_out", "set_global", "exit"} => global = SZ
        /\ At("clWaitForEvents") =>
              Is(trace[Len(trace)], "clEnqueueNDRangeKernel", ToString(SZ))

\* C12 witness: a run with N >= 1 in which all three vectors and buffers
\* were allocated, both uploads and the download were queued, argument 0 was
\* bound and the kernel finished, has returned from main.
C12_Witness ==
    /\ Finished(0)
    /\ SZ >= 1
    /\ Buffers \cup HostVectors \subseteq created
    /\ Cardinality(DOMAIN bytes) = 9
    /\ 0 \in DOMAIN args
    /\ event = "complete"

\* --------------------------------------------------------------- C13
\* The buffer bound by the kernel argument with index string a.
ArgBuffer(a) == IF a = "1" THEN "bufV1" ELSE IF a = "2" THEN "bufV2" ELSE "bufV_out"

\* The call c operates on a buffer or event handle whose creation failed.
UsesFailedHandle(c) ==
    \/ /\ c.op \in {"clEnqueueWriteBuffer", "clEnqueueReadBuffer", "release"}
       /\ c.arg \in Buffers
       /\ c.arg \notin created
    \/ /\ c.op = "clSetKernelArg"
       /\ c.arg \in {"1", "2", "3"}
       /\ ArgBuffer(c.arg) \notin created
    \/ /\ c.op = "clEnqueueNDRangeKernel"
       /\ ~ (Buffers \subseteq created)
    \/ /\ c.op = "clWaitForEvents"
       /\ "event" \notin created

\* C13: for N = 0 the run is rejected before any buffer is allocated or is a
\* no-op dispatch; either way no upload, binding, dispatch, wait, download
\* or release is made on a buffer or event handle whose creation failed.
\* (Stated as the claim states it; the code violates it.)
C13_ZeroLengthIsHarmless ==
    SZ = 0 => \A i \in Idx : ~ UsesFailedHandle(trace[i])

\* --------------------------------------------------------------- C14
InWindowOps == {"clEnqueueNDRangeKernel", "clWaitForEvents", "clEnqueueReadBuffer"}

\* C14: the timing window holds exactly the dispatch, the wait and the
\* download: every other step is made before the start timestamp is taken,
\* these three are made after it and before the stop timestamp, and the
\* output vector is printed only after the stop timestamp.
\* (Stated as the claim states it; the code violates it.)
C14_TimingWindow ==
    \A i \in Idx :
        /\ Is(trace[i], "now", "start") =>
              /\ \A j \in 1..(i - 1) : trace[j].op \notin InWindowOps
              /\ \A j \in (i + 1)..Len(trace) :
                    trace[j].op \in InWindowOps \cup {"now", "print", "release"}
        /\ Is(trace[i], "now", "stop") =>
              /\ \E j \in 1..(i - 1) : trace[j].op = "clEnqueueReadBuffer" /\ trace[j].done
              /\ \A j \in (i + 1)..Len(trace) : trace[j].op \notin InWindowOps
        /\ Is(trace[i], "print", "v_out") =>
              \E j \in 1..(i - 1) : Is(trace[j], "now", "stop")

\* --------------------------------------------------------------- C15
\* C15: a run of the setup / buffer / dispatch / teardown sequence that has
\* gone through its teardown leaves no handle it created unreleased
\* (context, program, queue, kernel, the three buffers, the completion
\* event, the host vectors) and has released none twice; two runs in
\* succession then leak nothing and free nothing twice.
\* (Stated as the claim states it; the code violates it in each run.)
C15_RunLeavesNoHandle ==
    Finished(0) =>
        \A r \in Tracked \cup {"event"} : r \in created => relCount[r] = 1

\* --------------------------------------------------------------- C16
\* The device keeps executing queued commands and the host keeps taking its
\* next step: a blocking call whose command the device has executed returns.
FairSpec == Spec /\ WF_vars(Next)

\* Every platform call and pipeline step made so far has succeeded.
AllSucceeded == \A i \in Idx : trace[i].ret = 0

\* Under FairSpec every run ends (exit, return from main, or a signal).
Terminates == <>(status # "running")

\* A run that has ended with every call successful has gone through
\* free_memory and returned 0 from main.
SuccessReturnsZero ==
    (status # "running" /\ AllSucceeded) =>
        /\ Finished(0)
        /\ Len(Releases) = Len(FreeOrder)

\* The host leaves a blocking wait only once the device has signalled.
WaitBlocks ==
    [][(pc = "blocked_wait" /\ pc' = "read_bufV_out") => event \in {"complete", "error"}]_vars

\* The statements of main after the wait of line 54.
PastWaitPcs ==
    {"read_bufV_out", "blocked_read_bufV_out", "print_v_out", "stop", "free_memory"}

\* C16: the host never proceeds past the wait before the device has
\* signalled completion of the dispatched kernel: while the kernel is still
\* queued the host is not at a statement after the wait.
\* (Stated as the claim states it; the code violates it.)
C16_NeverPastWaitBeforeCompletion ==
    (status = "running" /\ pc \in PastWaitPcs) => event # "queued"

\* --------------------------------------------------------------- C17
\* A vector of n values of rand() % 100 as init fills it (lines 71-73), one
\* per seed; neighbouring elements differ, so a shifted index shows.
Sample(seed, n) == [i \in 1..n |-> (seed + 7 * i) % RAND_MOD]

\* The state of main at line 42, after the three calls of init and the
\* assignment of global, for a length in 0..MaxLen.
InitPrint ==
    /\ pc = "print_v1"
    /\ status = "running"
    /\ exitCode = 0
    /\ SZ \in 0..MaxLen
    /\ global = SZ
    /\ \E seed \in 0..MaxSeed :
          /\ v1 = Sample(seed, SZ)
          /\ v2 = Sample(RAND_MOD - 1 - seed, SZ)
    /\ v_out = Sample(0, SZ)
    /\ handle = [r \in Resources |-> IF r \in HostVectors THEN "live" ELSE "null"]
    /\ created = HostVectors
    /\ relCount = [r \in Resources |-> 0]
    /\ err = 0 /\ setup_err = 0 /\ dev_err = 0
    /\ args = <<>>
    /\ event = "none"
    /\ devQ = <<>>
    /\ dmem = <<>>
    /\ bytes = [k \in {<<"malloc", A>> : A \in HostVectors} |-> SIZEOF_INT * SZ]
    /\ stdout = <<>>
    /\ trace = <<Call("init", "v1", 0), Call("init", "v2", 0), Call("init", "v_out", 0)>>

\* Lines 42-43: the two calls of print before the setup stage.
NextPrint == print_v1 \/ print_v2

SpecPrint == InitPrint /\ [][NextPrint]_vars

\* What the claim says print writes for the vector A of length n: the
\* elements at (0-based) indices 0..4, the ellipsis, and those at indices
\* n-5..n-1 when n > 15, and all n elements in index order otherwise.
Expected(A, n) ==
    IF n > 15
    THEN <<ToString(A[1]), ToString(A[2]), ToString(A[3]), ToString(A[4]),
           ToString(A[5]), ".....",
           ToString(A[n - 4]), ToString(A[n - 3]), ToString(A[n - 2]),
           ToString(A[n - 1]), ToString(A[n])>>
    ELSE [i \in 1..n |-> ToString(A[i])]

\* C17: for every vector of length N, print writes exactly the first five
\* elements, an ellipsis marker and the last five elements when N > 15, and
\* all N elements in index order when N <= 15.
C17_PrintElides ==
    /\ Len(stdout) >= 1 => stdout[1] = Expected(v1, SZ)
    /\ Len(stdout) >= 2 => stdout[2] = Expected(v2, SZ)

\* C17 witness: both vectors of a length above 15 have been printed, each as
\* eleven tokens.
C17_Witness ==
    /\ SZ > PRINT_LIMIT
    /\ Len(stdout) = 2
    /\ Len(stdout[1]) = 2 * PRINT_EDGE + 1
    /\ Len(stdout[2]) = 2 * PRINT_EDGE + 1

\* --------------------------------------------------------------- C18
\* build_program still holds the source buffer: between its allocation
\* (line 185) and the call of free (line 196).
HoldsSourceBuffer == At("clCreateProgramWithSource") \/ At("free_program_buffer")

\* C18: once the temporary source buffer has been allocated, it has been
\* freed exactly once by the time build_program returns or the process
\* exits, whether the program was created and compiled, its creation
\* failed, or its compilation failed.
\* (Stated as the claim states it; the code violates it.)
C18_SourceBufferFreedOnce ==
    ("program_buffer" \in created /\ ~ HoldsSourceBuffer) =>
        relCount["program_buffer"] = 1

\* --------------------------------------------------------------- C19
\* The statements between the return of build_program and the error check
\* of copy_kernel_args (lines 156-167, 133-139, 118-123).
AfterBuildPcs ==
    {"clCreateCommandQueue", "clCreateKernel",
     "clCreateBuffer_bufV1", "clCreateBuffer_bufV2", "clCreateBuffer_bufV_out",
     "write_bufV1", "blocked_write_bufV1", "write_bufV2", "blocked_write_bufV2",
     "clSetKernelArg_0", "clSetKernelArg_1", "clSetKernelArg_2", "clSetKernelArg_3",
     "check_err"}

\* The result clBuildProgram returned in this run.
BuildResult == trace[CHOOSE i \in Idx : trace[i].op = "clBuildProgram"].ret

====
